---------------------------- MODULE Spec2Model ----------------------------
(***************************************************************************)
(* A model of EdgeMCPClient (docs/openapi/examples/python/client.py): one  *)
(* client object, its websocket channel, and a number of asyncio tasks     *)
(* that call the client's operations concurrently.                          *)
(*                                                                          *)
(* Tasks interleave only where the code awaits.  websocket.send() hands    *)
(* the frame to the transport before it first suspends, so the lines       *)
(* 58-70 of send_message (the check of self.websocket, _next_id, the       *)
(* message and the write) are one step; the task then waits at line 74     *)
(* (recv), which takes the next message of the channel, whatever its id.   *)
(*                                                                          *)
(* Spec has the tasks call the operations concurrently, with the default   *)
(* arguments.  SeqSpec has one caller that makes one call at a time, as    *)
(* main() does, with batches and context documents of its choice, against  *)
(* a server that keeps the session context document and may send           *)
(* notifications.                                                           *)
(*                                                                          *)
(* HarnessSpec is one run of run_all_tests of the REST test harness         *)
(* (test/ai_agent_simulation.py) against a server that answers each HTTP   *)
(* request with a status and a body of its choice; a step is one request   *)
(* and what the harness does with the answer.  The harness and the          *)
(* websocket client share nothing: each leaves the other's state alone.    *)
(***************************************************************************)
EXTENDS Integers, Sequences, FiniteSets

(* ------------------------------ bounds --------------------------------- *)

\* number of tasks that use the client concurrently
NTasks == 2

\* the request-id counter is capped: no request is made beyond this id
MaxId == 3

\* how many messages the server sends that answer no request
MaxStray == 1

\* how many calls are given up by their callers
MaxAbandon == 1

Tasks == 1..NTasks

(* ------------------------------ values --------------------------------- *)

\* the public operations, lines 85-144
Ops == {"initialize", "list_tools", "call_tool", "batch_call_tools",
        "get_context", "update_context"}

\* the method each operation hands to send_message first
MethodOf(o) ==
    CASE o = "initialize"       -> "initialize"
      [] o = "list_tools"       -> "tools/list"
      [] o = "call_tool"        -> "tools/call"
      [] o = "batch_call_tools" -> "tools/batch"
      [] o = "get_context"      -> "context.get"
      [] o = "update_context"   -> "context.update"

\* a JSON object: `has` is the set of its keys; the values of the keys that
\* the client or the server looks at are kept, `items` being the key/value
\* pairs of a context document
EmptyDoc ==
    [has |-> {}, items |-> {}, tools |-> <<>>, results |-> {},
     success_count |-> 0, error_count |-> 0]

\* the result of `initialize`
InfoDoc == [EmptyDoc EXCEPT !.has = {"protocolVersion", "serverInfo"}]

\* the result of `tools/list` on a server that advertises the tools ts
ToolsDoc(ts) == [EmptyDoc EXCEPT !.has = {"tools"}, !.tools = ts]

\* the result of `tools/call`
DataDoc == [EmptyDoc EXCEPT !.has = {"content"}]

\* the session context document with the key/value pairs c
ContextDoc(c) == [EmptyDoc EXCEPT !.has = {p[1] : p \in c}, !.items = c]

\* line 98, result['serverInfo']
HasServerInfo(d) == "serverInfo" \in d.has

\* lines 127-130, result['success_count'] and result['error_count']
HasCounts(d) == {"success_count", "error_count"} \subseteq d.has

\* result.get("tools", []), line 104
ToolsOf(d) == IF "tools" \in d.has THEN d.tools ELSE <<>>

\* the error object the server gives to a request of method m it rejects
ErrFor(m) ==
    IF m = "tools/call"
    THEN [code |-> -32000, message |-> "Tool failed"]
    ELSE [code |-> -32601, message |-> "Method not found"]

\* self.request_id after __init__, line 35
InitialRequestId == 0

\* the id of a response that answers no request: ids are taken after the
\* increment, so no request has the initial value
StrayId == InitialRequestId

\* an inbound message: whether its text is JSON (line 75), and which of the
\* keys "method", "error" and "result" the object has
NoMsg ==
    [id |-> -1, json |-> TRUE, method |-> "", hasError |-> FALSE, code |-> 0,
     message |-> "", hasResult |-> FALSE, result |-> EmptyDoc]

ResultMsg(i, d) == [NoMsg EXCEPT !.id = i, !.hasResult = TRUE, !.result = d]

ErrorMsg(i, e) ==
    [NoMsg EXCEPT !.id = i, !.hasError = TRUE, !.code = e.code,
                  !.message = e.message]

\* a notification: a method and no id
NotificationMsg == [NoMsg EXCEPT !.method = "notifications/progress"]

\* a text that is not JSON
MalformedMsg == [NoMsg EXCEPT !.json = FALSE]

\* how a call ended: it returned a value or raised an exception
NoOutcome == [kind |-> "none", exc |-> "", text |-> <<>>, value |-> EmptyDoc]

Return(v) == [kind |-> "return", exc |-> "", text |-> <<>>, value |-> v]

Raise(e, txt) == [kind |-> "raise", exc |-> e, text |-> txt, value |-> EmptyDoc]

\* str() of an error code inside the f-string of line 81
CodeStr(c) ==
    CASE c = -32601 -> "-32601"
      [] c = -32000 -> "-32000"
      [] OTHER      -> "0"

\* the arguments a caller gives to an operation: the batch and the flag of
\* batch_call_tools, the document and the flag of update_context
Args(ts, par, c, mrg) ==
    [tools |-> ts, parallel |-> par, context |-> c, merge |-> mrg]

\* the defaults of the signatures, lines 117 and 138: parallel=True, merge=True
DefaultArgs == Args(<<>>, TRUE, {}, TRUE)

\* the params object of a request: `has` is the set of its keys
NoParams ==
    [has |-> {}, tools |-> <<>>, parallel |-> FALSE, context |-> {},
     merge |-> FALSE]

\* a batch_call_tools that always asks for parallel execution
ParamsOfForcesParallel(o, a) ==
    CASE o = "initialize" ->
            [NoParams EXCEPT !.has = {"protocolVersion", "clientInfo"}]
      [] o = "call_tool" ->
            [NoParams EXCEPT !.has = {"name", "arguments"}]
      [] o = "batch_call_tools" ->
            [NoParams EXCEPT !.has = {"tools", "parallel"}, !.tools = a.tools,
                             !.parallel = TRUE]
      [] o = "update_context" ->
            [NoParams EXCEPT !.has = {"context", "merge"},
                             !.context = a.context, !.merge = a.merge]
      [] OTHER -> NoParams

\* the params each operation hands to send_message first (lines 87-94, 103,
\* 110-113, 119-125, 135, 140-143); `params or {}` of line 66 makes {} of None
ParamsOf(o, a) ==
    CASE o = "initialize" ->
            [NoParams EXCEPT !.has = {"protocolVersion", "clientInfo"}]
      [] o = "call_tool" ->
            [NoParams EXCEPT !.has = {"name", "arguments"}]
      [] o = "batch_call_tools" ->
            [NoParams EXCEPT !.has = {"tools", "parallel"}, !.tools = a.tools,
                             !.parallel = a.parallel]
      [] o = "update_context" ->
            [NoParams EXCEPT !.has = {"context", "merge"},
                             !.context = a.context, !.merge = a.merge]
      [] OTHER -> NoParams

(* ------------------------------ state ---------------------------------- *)

VARIABLES
    websocket,    \* self.websocket: "None", or a connection "open" or "closed"
    request_id,   \* self.request_id
    wire,         \* the requests written to the channel, in order, that the
                  \* server has not answered yet
    inbox,        \* messages that arrived and that no recv() has taken yet
    pc,           \* per task: "idle", "recv" (waiting at line 74), "mid"
                  \* (initialize between lines 87 and 96) or "done"
    op,           \* per task: the operation it runs, "none" when idle
    method,       \* per task: the method of its current send_message
    rid,          \* per task: request_id of its current send_message, 0 if none
    got,          \* per task: the message its current send_message received
    sent,         \* per task: how its latest send_message ended
    result,       \* per task: the local `result` of initialize (line 87)
    issued,       \* history: the ids put into requests (line 64), in order
    handshake,    \* history: "none", "initializing" once an `initialize`
                  \* request is written, "ready" once an initialize() has the
                  \* results of both its requests
    strays,       \* history: number of responses sent that answer no request
    abandoned,    \* history: ids of the calls whose caller gave up
    pendAtClose,  \* history: ids of the calls in flight that were unanswered
                  \* when the channel closed
    args,         \* per task: the arguments its operation was called with
    context,      \* the other side: the session context document it holds
    advertised,   \* the other side: the tools it advertises, in its order
    script        \* a caller that keeps what its operations returned: the
                  \* operations that returned, in order, with their
                  \* arguments, the id of their last request and their value

\* the REST test harness, test/ai_agent_simulation.py: one run of
\* run_all_tests against a server that answers every HTTP request
VARIABLES
    hpc,           \* where run_all_tests is: the HTTP request it is about to
                   \* make, "summary" before results.summary(), "returned"
                   \* after it, "raised" once an exception left the run
    passed,        \* results.passed
    failed,        \* results.failed
    total,         \* results.total
    context_id,    \* run_all_tests' context_id, "None" for None
    content_items, \* test_embedding_operations: len(content_items)
    index,         \* test_embedding_operations: the items tried so far
    success_count, \* test_embedding_operations: success_count
    fetched,       \* what get_context returned to test_context_retrieval
    gets           \* history: the status of the answer to each get_context

harnessVars == <<hpc, passed, failed, total, context_id, content_items, index,
                 success_count, fetched, gets>>

vars == <<websocket, request_id, wire, inbox, pc, op, method, rid, got, sent,
          result, issued, handshake, strays, abandoned, pendAtClose, args,
          context, advertised, script, harnessVars>>

taskVars == <<pc, op, method, rid, got, sent, result, args>>

histVars == <<strays, abandoned, pendAtClose>>

\* what no step of the websocket client touches: the other side, the
\* caller's script and the REST harness
envVars == <<context, advertised, script, harnessVars>>

clientVars == <<websocket, request_id, wire, inbox, issued, handshake,
                taskVars, histVars, context, advertised, script>>

\* the tools of the example's calls, lines 164 and 175
Advertised == <<"github_get_repository", "github_list_issues">>

(* --------------------- the REST harness: values ------------------------ *)

\* what a method of MCPClient gives its caller: None, a dict with the keys
\* `has`, the value `id` under "id" and `content` items under "content", or
\* an exception
HNone == [kind |-> "None", has |-> {}, id |-> "", content |-> 0]

HDict(h, i, n) == [kind |-> "dict", has |-> h, id |-> i, content |-> n]

HRaise == [kind |-> "raise", has |-> {}, id |-> "", content |-> 0]

\* len(new_content), lines 359-365
NewContentLen == 5

\* the HTTP statuses the server answers with
Statuses == {200, 201, 404, 500}

\* the ids the server puts into its documents
ServerIds == {"ctx-1", "ctx-2", ""}

\* the JSON values the server sends: objects with and without "id" and
\* "content", and null
Documents ==
    {HDict({"id", "content"}, i, n) : i \in ServerIds, n \in {0, NewContentLen}}
        \cup {HDict({"id"}, i, 0) : i \in ServerIds}
        \cup {HDict({"content"}, "", n) : n \in {0, NewContentLen}}
        \cup {HDict({"message"}, "", 0), HNone}

\* response.text: nothing, a text that is not JSON, or a JSON text
NoText == [text |-> FALSE, parses |-> FALSE, json |-> HNone]

NotJson == [text |-> TRUE, parses |-> FALSE, json |-> HNone]

JsonText(v) == [text |-> TRUE, parses |-> TRUE, json |-> v]

Bodies == {NoText, NotJson} \cup {JsonText(v) : v \in Documents}

Responses == [status : Statuses, body : Bodies]

\* response.json(): the value of a JSON text, an exception for any other
Json(r) == IF r.body.parses THEN r.body.json ELSE HRaise

\* `if context_id:` (line 455): None and the empty string count as false
Truthy(i) == i \notin {"None", ""}

\* len(d.get("content", []))
ContentLen(d) == IF "content" \in d.has THEN d.content ELSE 0

\* run_all_tests has made results and client (lines 444-445)
HarnessInit ==
    /\ hpc = "health"
    /\ passed = 0
    /\ failed = 0
    /\ total = 0
    /\ context_id = "None"
    /\ content_items = 0
    /\ index = 0
    /\ success_count = 0
    /\ fetched = HNone
    /\ gets = <<>>

(* ------------------------- the client: state --------------------------- *)

\* __init__, lines 31-35; nothing has been called and nothing has been sent
ClientInit ==
    /\ websocket = "None"
    /\ request_id = InitialRequestId
    /\ wire = <<>>
    /\ inbox = <<>>
    /\ pc = [t \in Tasks |-> "idle"]
    /\ op = [t \in Tasks |-> "none"]
    /\ method = [t \in Tasks |-> "none"]
    /\ rid = [t \in Tasks |-> 0]
    /\ got = [t \in Tasks |-> NoMsg]
    /\ sent = [t \in Tasks |-> NoOutcome]
    /\ result = [t \in Tasks |-> EmptyDoc]
    /\ issued = <<>>
    /\ handshake = "none"
    /\ strays = 0
    /\ abandoned = {}
    /\ pendAtClose = {}
    /\ args = [t \in Tasks |-> DefaultArgs]
    /\ context = {}
    /\ script = <<>>

\* a new client, and a server that advertises the tools of the example
Init ==
    /\ ClientInit
    /\ advertised = Advertised
    /\ HarnessInit

(* ------------------------- send_message -------------------------------- *)

\* a counter that starts again at 1 after 2
NextIdWraps(r) == IF r = 2 THEN 1 ELSE r + 1

\* _next_id, lines 37-40: the value of the counter after the increment
NextId(r) == r + 1

\* a send_message that never looks for the "error" key
InterpretIgnoresError(m) ==
    IF ~m.json
    THEN Raise("JSONDecodeError", <<>>)
    ELSE Return(IF m.hasResult THEN m.result ELSE EmptyDoc)

\* lines 75-83: json.loads raises on a text that is not JSON; an "error" key
\* raises, else the "result" key (or {}) is returned
Interpret(m) ==
    CASE ~m.json    -> Raise("JSONDecodeError", <<>>)
      [] m.hasError -> Raise("Exception",
                             <<"MCP Error (", CodeStr(m.code), "): ", m.message>>)
      [] OTHER      -> Return(IF m.hasResult THEN m.result ELSE EmptyDoc)

\* a send_message without the test of line 58: send() is called on None
SendOutcomeWithoutCheck(ws) ==
    CASE ws = "open"   -> NoOutcome
      [] ws = "closed" -> Raise("ConnectionClosed", <<>>)
      [] OTHER         -> Raise("AttributeError", <<>>)

\* a send() that does not fail on a closed connection
SendOutcomeIgnoresClose(ws) ==
    CASE ws = "None" -> Raise("RuntimeError", <<"Not connected to Edge MCP">>)
      [] OTHER       -> NoOutcome

\* lines 58-70: how send_message ends before it reaches recv, if it does:
\* no websocket object raises at line 59, a closed one raises inside send()
SendOutcome(ws) ==
    CASE ws = "None"   -> Raise("RuntimeError", <<"Not connected to Edge MCP">>)
      [] ws = "closed" -> Raise("ConnectionClosed", <<>>)
      [] OTHER         -> NoOutcome

\* a send() whose frame overtakes the frames written before
WrittenInFront(ws, w, q) == IF ws = "open" THEN <<q>> \o w ELSE w

\* a send() that writes its frame twice
WrittenTwice(ws, w, q) == IF ws = "open" THEN Append(Append(w, q), q) ELSE w

\* line 70: the channel after send() of request q: only an open one takes it
Written(ws, w, q) == IF ws = "open" THEN Append(w, q) ELSE w

\* lines 58-70, task t calling send_message(m, p): the id is taken before the
\* write
StartSend(t, m, p) ==
    LET so == SendOutcome(websocket) IN
    /\ request_id' = IF websocket = "None" THEN request_id ELSE NextId(request_id)
    /\ issued' = IF websocket = "None" THEN issued ELSE Append(issued, request_id')
    /\ wire' = IF websocket = "None"
               THEN wire
               ELSE Written(websocket, wire,
                            [id |-> request_id', method |-> m, params |-> p])
    /\ handshake' = IF Len(wire') > Len(wire) /\ m = "initialize" /\ handshake = "none"
                    THEN "initializing"
                    ELSE handshake
    /\ method' = [method EXCEPT ![t] = m]
    /\ rid' = [rid EXCEPT ![t] = IF websocket = "None" THEN 0 ELSE request_id']
    /\ got' = [got EXCEPT ![t] = NoMsg]
    /\ sent' = [sent EXCEPT ![t] = so]
    /\ pc' = [pc EXCEPT ![t] = IF so.kind = "none" THEN "recv" ELSE "done"]

(* ---------------------------- operations ------------------------------- *)

\* what an operation makes of the outcome r of its last send_message; res is
\* initialize's local `result` (lines 98-99, 104-106, 115, 127-131, 136,
\* 140-144)
OpOutcome(o, r, res) ==
    CASE r.kind # "return"      -> r
      [] o = "initialize"       -> IF HasServerInfo(res)
                                   THEN Return(res)
                                   ELSE Raise("KeyError", <<"serverInfo">>)
      [] o = "list_tools"       -> Return(ToolsOf(r.value))
      [] o = "batch_call_tools" -> IF HasCounts(r.value)
                                   THEN Return(r.value)
                                   ELSE Raise("KeyError", <<"success_count">>)
      [] o = "update_context"   -> Return("None")
      [] OTHER                  -> Return(r.value)

\* how the operation of task t ended, once it is done
outcome(t) ==
    IF pc[t] = "done" THEN OpOutcome(op[t], sent[t], result[t]) ELSE NoOutcome

\* no operation has just ended: a caller sees how its operation ended before
\* anything else happens
Quiet == \A t \in Tasks : pc[t] # "done"

\* connect, lines 42-48
Connect ==
    /\ Quiet
    /\ websocket = "None"
    /\ websocket' = "open"
    /\ UNCHANGED <<request_id, wire, inbox, issued, handshake, taskVars, histVars,
                   envVars>>

\* the ids of the requests the server has not answered
Waiting == {wire[i].id : i \in 1..Len(wire)}

\* the ids of the calls in flight whose response has not arrived
Unanswered ==
    {rid[t] : t \in {u \in Tasks : pc[u] = "recv"}} \cap Waiting

\* the channel closes: what the server has not answered is lost
CloseChannel ==
    /\ websocket' = IF websocket = "None" THEN "None" ELSE "closed"
    /\ wire' = IF websocket = "open" THEN <<>> ELSE wire
    /\ pendAtClose' = IF websocket = "open" THEN Unanswered ELSE pendAtClose
    /\ UNCHANGED <<request_id, inbox, issued, handshake, taskVars, strays,
                   abandoned, envVars>>

\* disconnect, lines 50-54: nothing to do without a websocket object
Disconnect ==
    /\ Quiet
    /\ CloseChannel

\* a task calls one of the operations of lines 85-144 with the arguments a,
\* and the operation calls send_message; tasks are alike, the free one of
\* the lowest number is taken
Call(t, o, a) ==
    /\ Quiet
    /\ pc[t] = "idle"
    /\ \A u \in Tasks : u < t => pc[u] # "idle"
    /\ request_id < MaxId
    /\ op' = [op EXCEPT ![t] = o]
    /\ args' = [args EXCEPT ![t] = a]
    /\ StartSend(t, MethodOf(o), ParamsOf(o, a))
    /\ UNCHANGED <<websocket, inbox, result, histVars, envVars>>

\* a task calls an operation, with the defaults where it takes arguments
Begin(t, o) == Call(t, o, DefaultArgs)

\* a recv() that leaves the message it returns in the channel
RecvLeavesMessage(t) ==
    /\ Quiet
    /\ pc[t] = "recv"
    /\ inbox # <<>>
    /\ LET m == Head(inbox)
           r == Interpret(m)
       IN  /\ inbox' = inbox
           /\ got' = [got EXCEPT ![t] = m]
           /\ sent' = [sent EXCEPT ![t] = r]
           /\ IF op[t] = "initialize" /\ method[t] = "initialize" /\ r.kind = "return"
              THEN /\ pc' = [pc EXCEPT ![t] = "mid"]
                   /\ result' = [result EXCEPT ![t] = r.value]
                   /\ UNCHANGED handshake
              ELSE /\ pc' = [pc EXCEPT ![t] = "done"]
                   /\ handshake' = IF op[t] = "initialize" /\ r.kind = "return"
                                   THEN "ready"
                                   ELSE handshake
                   /\ UNCHANGED result
    /\ UNCHANGED <<websocket, request_id, wire, issued, op, method, rid, args,
                   histVars, envVars>>

\* a send_message that drops the connection when it raises
RecvClosesOnError(t) ==
    /\ Quiet
    /\ pc[t] = "recv"
    /\ inbox # <<>>
    /\ LET m == Head(inbox)
           r == Interpret(m)
       IN  /\ inbox' = Tail(inbox)
           /\ got' = [got EXCEPT ![t] = m]
           /\ sent' = [sent EXCEPT ![t] = r]
           /\ websocket' = IF r.kind = "raise" THEN "closed" ELSE websocket
           /\ IF op[t] = "initialize" /\ method[t] = "initialize" /\ r.kind = "return"
              THEN /\ pc' = [pc EXCEPT ![t] = "mid"]
                   /\ result' = [result EXCEPT ![t] = r.value]
                   /\ UNCHANGED handshake
              ELSE /\ pc' = [pc EXCEPT ![t] = "done"]
                   /\ handshake' = IF op[t] = "initialize" /\ r.kind = "return"
                                   THEN "ready"
                                   ELSE handshake
                   /\ UNCHANGED result
    /\ UNCHANGED <<request_id, wire, issued, op, method, rid, args, histVars,
                   envVars>>

\* line 74 onwards, a message is there: recv() returns the next one, lines
\* 75-83 interpret it; initialize goes on to line 96 after a result
Recv(t) ==
    /\ Quiet
    /\ pc[t] = "recv"
    /\ inbox # <<>>
    /\ LET m == Head(inbox)
           r == Interpret(m)
       IN  /\ inbox' = Tail(inbox)
           /\ got' = [got EXCEPT ![t] = m]
           /\ sent' = [sent EXCEPT ![t] = r]
           /\ IF op[t] = "initialize" /\ method[t] = "initialize" /\ r.kind = "return"
              THEN /\ pc' = [pc EXCEPT ![t] = "mid"]
                   /\ result' = [result EXCEPT ![t] = r.value]
                   /\ UNCHANGED handshake
              ELSE /\ pc' = [pc EXCEPT ![t] = "done"]
                   /\ handshake' = IF op[t] = "initialize" /\ r.kind = "return"
                                   THEN "ready"
                                   ELSE handshake
                   /\ UNCHANGED result
    /\ UNCHANGED <<websocket, request_id, wire, issued, op, method, rid, args,
                   histVars, envVars>>

\* line 74 fails with the exception e
RecvRaises(t, e) ==
    /\ sent' = [sent EXCEPT ![t] = e]
    /\ pc' = [pc EXCEPT ![t] = "done"]
    /\ UNCHANGED <<websocket, request_id, wire, inbox, issued, handshake, op,
                   method, rid, got, result, args, envVars>>

\* line 74, no message and the channel closed: recv() raises ConnectionClosed
RecvClosed(t) ==
    /\ Quiet
    /\ pc[t] = "recv"
    /\ inbox = <<>>
    /\ websocket = "closed"
    /\ RecvRaises(t, Raise("ConnectionClosed", <<>>))
    /\ UNCHANGED histVars

\* line 74, no message and another task already waits in recv(): the
\* websockets library may refuse the second waiter with a RuntimeError
RecvConcurrent(t) ==
    /\ Quiet
    /\ pc[t] = "recv"
    /\ inbox = <<>>
    /\ websocket = "open"
    /\ \E u \in Tasks \ {t} : pc[u] = "recv"
    /\ RecvRaises(t, Raise("RuntimeError", <<"cannot call recv">>))
    /\ UNCHANGED histVars

\* initialize, line 96: the first send_message returned, the second is called
Continue(t) ==
    /\ Quiet
    /\ pc[t] = "mid"
    /\ request_id < MaxId
    /\ StartSend(t, "initialized", NoParams)
    /\ UNCHANGED <<websocket, inbox, op, result, args, histVars, envVars>>

\* the caller gives up a call that waits at line 74 (its task is cancelled,
\* as asyncio.wait_for does on a timeout): nothing is written
Abandon(t) ==
    /\ Quiet
    /\ pc[t] = "recv"
    /\ Cardinality(abandoned) < MaxAbandon
    /\ RecvRaises(t, Raise("CancelledError", <<>>))
    /\ abandoned' = abandoned \cup {rid[t]}
    /\ UNCHANGED <<strays, pendAtClose>>

\* the operation of task t has returned or raised: the task is free for the
\* next one
Leave(t) ==
    /\ pc[t] = "done"
    /\ pc' = [pc EXCEPT ![t] = "idle"]
    /\ op' = [op EXCEPT ![t] = "none"]
    /\ method' = [method EXCEPT ![t] = "none"]
    /\ rid' = [rid EXCEPT ![t] = 0]
    /\ got' = [got EXCEPT ![t] = NoMsg]
    /\ sent' = [sent EXCEPT ![t] = NoOutcome]
    /\ result' = [result EXCEPT ![t] = EmptyDoc]
    /\ args' = [args EXCEPT ![t] = DefaultArgs]
    /\ pendAtClose' = pendAtClose \ {rid[t]}
    /\ UNCHANGED <<websocket, request_id, wire, inbox, issued, handshake,
                   strays, abandoned, context, advertised, harnessVars>>

\* the operation has returned or raised, and its caller keeps nothing of it
Finish(t) ==
    /\ Leave(t)
    /\ UNCHANGED script

(* ------------------------- the other side ------------------------------ *)

\* s without its i-th element
Without(s, i) == SubSeq(s, 1, i - 1) \o SubSeq(s, i + 1, Len(s))

\* whether the server has the tool of a call of a batch
Succeeds(call, adv) == \E i \in 1..Len(adv) : adv[i] = call.name

\* the Batch Result of the server that advertises adv for the batch calls:
\* an outcome under the id of each call, and the two counts
BatchDoc(calls, adv) ==
    LET ok == {i \in 1..Len(calls) : Succeeds(calls[i], adv)}
    IN  [EmptyDoc EXCEPT
            !.has = {calls[i].id : i \in 1..Len(calls)}
                    \cup {"success_count", "error_count", "duration_ms"},
            !.results = {<<calls[i].id, IF i \in ok THEN "success" ELSE "error">> :
                            i \in 1..Len(calls)},
            !.success_count = Cardinality(ok),
            !.error_count = Len(calls) - Cardinality(ok)]

\* the context document after an update with the document c: merge unions c
\* into it, the keys of c taking the values of c, no merge replaces it
Merged(ctx, c, mrg) ==
    IF mrg
    THEN c \cup {p \in ctx : \A q \in c : q[1] # p[1]}
    ELSE c

\* the context document after the server has carried out the request q
ContextAfter(q, ctx) ==
    IF q.method = "context.update"
    THEN Merged(ctx, q.params.context, q.params.merge)
    ELSE ctx

\* the result document the server gives to the request q when it holds the
\* context document ctx and advertises the tools adv
DocFor(q, ctx, adv) ==
    CASE q.method = "initialize"  -> InfoDoc
      [] q.method = "tools/list"  -> ToolsDoc(adv)
      [] q.method = "tools/batch" -> BatchDoc(q.params.tools, adv)
      [] q.method = "context.get" -> ContextDoc(ctx)
      [] OTHER                    -> DataDoc

\* the server answers a request it has read, in any order it likes: it
\* carries it out and gives the result, or rejects it with an error
ServerRespond ==
    /\ Quiet
    /\ websocket = "open"
    /\ \E i \in 1..Len(wire) :
          /\ wire' = Without(wire, i)
          /\ \/ /\ inbox' = Append(inbox, ResultMsg(wire[i].id,
                                     DocFor(wire[i], context, advertised)))
                /\ context' = ContextAfter(wire[i], context)
             \/ /\ inbox' = Append(inbox, ErrorMsg(wire[i].id, ErrFor(wire[i].method)))
                /\ context' = context
    /\ UNCHANGED <<websocket, request_id, issued, handshake, taskVars, histVars,
                   advertised, script, harnessVars>>

\* the server sends a response whose id answers no request
ServerStray ==
    /\ Quiet
    /\ websocket = "open"
    /\ strays < MaxStray
    /\ strays' = strays + 1
    /\ inbox' = Append(inbox, ResultMsg(StrayId, DataDoc))
    /\ UNCHANGED <<websocket, request_id, wire, issued, handshake, taskVars,
                   abandoned, pendAtClose, envVars>>

\* the peer closes the channel
PeerClose ==
    /\ Quiet
    /\ websocket = "open"
    /\ CloseChannel

Next ==
    \/ Connect
    \/ Disconnect
    \/ \E t \in Tasks, o \in Ops : Begin(t, o)
    \/ \E t \in Tasks : Recv(t)
    \/ \E t \in Tasks : RecvClosed(t)
    \/ \E t \in Tasks : RecvConcurrent(t)
    \/ \E t \in Tasks : Continue(t)
    \/ \E t \in Tasks : Abandon(t)
    \/ \E t \in Tasks : Finish(t)
    \/ ServerRespond
    \/ ServerStray
    \/ PeerClose

Spec == Init /\ [][Next]_vars

(* ------------------- one caller, one call at a time -------------------- *)

\* the calls of a batch: an id chosen by the caller and the name of a tool;
\* the ids and the second tool are those of lines 173-190
BadCall == [id |-> "call-1", name |-> "nonexistent_tool"]

GoodCall == [id |-> "call-2", name |-> "github_list_issues"]

\* the batches a caller submits: none, one or two calls
Batches == {<<>>, <<GoodCall>>, <<BadCall, GoodCall>>}

\* the documents a caller gives to update_context
Contexts == {{<<"a", 1>>}, {<<"b", 2>>}}

\* the arguments an operation may be called with
ArgsFor(o) ==
    CASE o = "batch_call_tools" ->
            {Args(b, par, {}, TRUE) : b \in Batches, par \in BOOLEAN}
      [] o = "update_context" ->
            {Args(<<>>, TRUE, c, mrg) : c \in Contexts, mrg \in BOOLEAN}
      [] OTHER -> {DefaultArgs}

\* what a server may advertise: no tool at all, or the tools of the example
ToolLists == {<<>>, Advertised}

\* the task of the only caller
Caller == CHOOSE t \in Tasks : \A u \in Tasks : t <= u

\* a new client, and a server that advertises some tools
SeqInit ==
    /\ ClientInit
    /\ advertised \in ToolLists
    /\ HarnessInit

\* the operation has returned or raised; the caller keeps what it returned,
\* as main() does (lines 159, 165, 173, 204)
SeqFinish ==
    /\ Leave(Caller)
    /\ script' = IF outcome(Caller).kind = "return"
                 THEN Append(script, [op    |-> op[Caller],
                                      id    |-> rid[Caller],
                                      args  |-> args[Caller],
                                      value |-> outcome(Caller).value])
                 ELSE script

\* the server sends a message that answers no request
Unsolicited(m) ==
    /\ Quiet
    /\ websocket = "open"
    /\ strays < MaxStray
    /\ strays' = strays + 1
    /\ inbox' = Append(inbox, m)
    /\ UNCHANGED <<websocket, request_id, wire, issued, handshake, taskVars,
                   abandoned, pendAtClose, envVars>>

\* the server sends a notification
ServerNotify == Unsolicited(NotificationMsg)

\* the server sends a text that is not JSON
ServerMalformed == Unsolicited(MalformedMsg)

SeqNext ==
    \/ Connect
    \/ Disconnect
    \/ \E o \in Ops : \E a \in ArgsFor(o) : Call(Caller, o, a)
    \/ Recv(Caller)
    \/ RecvClosed(Caller)
    \/ Continue(Caller)
    \/ SeqFinish
    \/ ServerRespond
    \/ ServerNotify
    \/ ServerMalformed
    \/ PeerClose

SeqSpec == SeqInit /\ [][SeqNext]_vars

(* ------------------------- the REST harness ---------------------------- *)

\* TestResult.add_result, lines 39-46
add_result(success) ==
    /\ total' = total + 1
    /\ passed' = IF success THEN passed + 1 ELSE passed
    /\ failed' = IF success THEN failed ELSE failed + 1

\* TestResult.summary, line 57
summary == failed = 0

\* an exception leaves run_all_tests: nothing catches it
Raised ==
    /\ hpc' = "raised"
    /\ UNCHANGED <<passed, failed, total>>

\* MCPClient.create_context, lines 110-112, answered with r
create_context(r) ==
    IF r.status \in {200, 201}
    THEN IF r.body.text THEN Json(r) ELSE HDict({"id", "message"}, "test-id", 0)
    ELSE HNone

\* a get_context that gives None when the context cannot be had
get_context_or_None(i, r) ==
    IF r.status = 200
    THEN IF r.body.text THEN Json(r) ELSE HDict({"id", "content"}, i, 0)
    ELSE HNone

\* MCPClient.get_context(i), lines 127-130, answered with r
get_context(i, r) ==
    IF r.status = 200
    THEN IF r.body.text THEN Json(r) ELSE HDict({"id", "content"}, i, 0)
    ELSE HDict({"id", "content", "agent_id", "model_id"}, i, 0)

\* the mock of MCPClient.update_context, lines 152, 176 and 179
UpdateMock(i) == HDict({"id", "content"}, i, NewContentLen)

\* MCPClient.search_embeddings and get_context_embeddings, lines 225-227 and
\* 242-244
JsonIfOk(r) == IF r.status = 200 THEN Json(r) ELSE HNone

\* test_health_check, lines 262-267, and lines 448-450
HealthCheck ==
    /\ hpc = "health"
    /\ \E s \in Statuses :
          /\ add_result(s = 200)
          /\ hpc' = IF s = 200 THEN "create" ELSE "summary"
    /\ UNCHANGED <<context_id, content_items, index, success_count, fetched, gets,
                   clientVars>>

\* test_context_creation, lines 276-291: the empty context
CreateContext ==
    /\ hpc = "create"
    /\ \E r \in Responses :
          LET c == create_context(r)
              success == c.kind # "None"
          IN  IF c.kind = "raise"
              THEN Raised /\ UNCHANGED context_id
              ELSE /\ add_result(success)
                   /\ context_id' = CASE ~success      -> "None"
                                      [] "id" \in c.has -> c.id
                                      [] OTHER          -> "test-id-1"
                   /\ hpc' = IF success THEN "create_with_content" ELSE "summary"
    /\ UNCHANGED <<content_items, index, success_count, fetched, gets, clientVars>>

\* test_context_creation, lines 300-306, and line 455
CreateWithContent ==
    /\ hpc = "create_with_content"
    /\ \E r \in Responses :
          LET c == create_context(r)
          IN  IF c.kind = "raise"
              THEN Raised
              ELSE /\ add_result(c.kind # "None")
                   /\ hpc' = IF Truthy(context_id) THEN "retrieve" ELSE "summary"
    /\ UNCHANGED <<context_id, content_items, index, success_count, fetched, gets,
                   clientVars>>

\* line 315: what test_context_retrieval makes of the context c it got for i
RetrievalSuccess(i, c) == c.kind # "None" /\ "id" \in c.has /\ c.id = i

\* test_context_retrieval, lines 308-321
Retrieve ==
    /\ hpc = "retrieve"
    /\ IF context_id = "None"
       THEN /\ add_result(FALSE)
            /\ hpc' = "options"
            /\ UNCHANGED <<fetched, gets>>
       ELSE \E r \in Responses :
               LET c == get_context(context_id, r)
               IN  /\ gets' = Append(gets, r.status)
                   /\ fetched' = c
                   /\ IF c.kind = "raise"
                      THEN Raised
                      ELSE /\ add_result(RetrievalSuccess(context_id, c))
                           /\ hpc' = "options"
    /\ UNCHANGED <<context_id, content_items, index, success_count, clientVars>>

\* test_context_update, lines 331-356: the OPTIONS request
UpdateProbe ==
    /\ hpc = "options"
    /\ \E s \in Statuses :
          IF s = 404
          THEN add_result(TRUE) /\ hpc' = "embed_get"
          ELSE hpc' = "put" /\ UNCHANGED <<passed, failed, total>>
    /\ UNCHANGED <<context_id, content_items, index, success_count, fetched, gets,
                   clientVars>>

\* test_context_update, lines 368-374, with the value c of update_context
Updated(c) ==
    IF c.kind = "raise"
    THEN Raised
    ELSE /\ add_result(c.kind # "None" /\ "id" \in c.has
                         /\ ContentLen(c) = NewContentLen)
         /\ hpc' = "embed_get"

\* update_context, lines 142-153 and 179: the PUT request
UpdatePut ==
    /\ hpc = "put"
    /\ \E r \in Responses :
          CASE r.status = 200 ->
                   Updated(IF r.body.text THEN Json(r) ELSE UpdateMock(context_id))
            [] r.status = 404 ->
                   hpc' = "legacy" /\ UNCHANGED <<passed, failed, total>>
            [] OTHER ->
                   Updated(UpdateMock(context_id))
    /\ UNCHANGED <<context_id, content_items, index, success_count, fetched, gets,
                   clientVars>>

\* update_context, lines 166-179: the PUT request to the legacy endpoint
UpdateLegacy ==
    /\ hpc = "legacy"
    /\ \E r \in Responses :
          IF r.status = 200
          THEN Updated(IF r.body.text THEN Json(r) ELSE UpdateMock(context_id))
          ELSE Updated(UpdateMock(context_id))
    /\ UNCHANGED <<context_id, content_items, index, success_count, fetched, gets,
                   clientVars>>

\* test_embedding_operations, lines 383-386 and 402: get_context again
EmbedGet ==
    /\ hpc = "embed_get"
    /\ \E r \in Responses :
          LET c == get_context(context_id, r)
          IN  /\ gets' = Append(gets, r.status)
              /\ CASE c.kind = "raise" ->
                          Raised /\ UNCHANGED content_items
                    [] c.kind = "None" ->
                          /\ add_result(FALSE)
                          /\ hpc' = "summary"
                          /\ UNCHANGED content_items
                    [] OTHER ->
                          /\ content_items' = ContentLen(c)
                          /\ hpc' = "vectors"
                          /\ UNCHANGED <<passed, failed, total>>
    /\ UNCHANGED <<context_id, index, success_count, fetched, clientVars>>

\* test_embedding_operations, lines 389-413: the GET that looks for the
\* vector endpoints; without content items the loop of line 403 is empty
EmbedProbe ==
    /\ hpc = "vectors"
    /\ \E s \in Statuses :
          IF s = 404 \/ content_items = 0
          THEN /\ add_result(TRUE)
               /\ hpc' = "summary"
               /\ UNCHANGED <<index, success_count>>
          ELSE /\ hpc' = "store"
               /\ index' = 0
               /\ success_count' = 0
               /\ UNCHANGED <<passed, failed, total>>
    /\ UNCHANGED <<context_id, content_items, fetched, gets, clientVars>>

\* test_embedding_operations, lines 403-416, and store_embedding, line 203:
\* one turn of the loop, and what follows the last
StoreEmbedding ==
    /\ hpc = "store"
    /\ \E s \in Statuses :
          LET n == IF s \in {200, 201} THEN success_count + 1 ELSE success_count
          IN  /\ success_count' = n
              /\ index' = index + 1
              /\ IF index + 1 = content_items
                 THEN /\ add_result(n = content_items)
                      /\ hpc' = IF n = content_items THEN "search" ELSE "summary"
                 ELSE /\ hpc' = "store"
                      /\ UNCHANGED <<passed, failed, total>>
    /\ UNCHANGED <<context_id, content_items, fetched, gets, clientVars>>

\* test_embedding_operations, lines 417-423
SearchEmbeddings ==
    /\ hpc = "search"
    /\ \E r \in Responses :
          LET v == JsonIfOk(r)
          IN  IF v.kind = "raise"
              THEN Raised
              ELSE add_result(v.kind # "None") /\ hpc' = "get_embeddings"
    /\ UNCHANGED <<context_id, content_items, index, success_count, fetched, gets,
                   clientVars>>

\* test_embedding_operations, lines 426-430
GetEmbeddings ==
    /\ hpc = "get_embeddings"
    /\ \E r \in Responses :
          LET v == JsonIfOk(r)
          IN  IF v.kind = "raise"
              THEN Raised
              ELSE add_result(v.kind # "None") /\ hpc' = "delete"
    /\ UNCHANGED <<context_id, content_items, index, success_count, fetched, gets,
                   clientVars>>

\* test_embedding_operations, lines 433-438, and delete_context_embeddings,
\* line 259
DeleteEmbeddings ==
    /\ hpc = "delete"
    /\ \E s \in Statuses :
          add_result(s = 200) /\ hpc' = "summary"
    /\ UNCHANGED <<context_id, content_items, index, success_count, fetched, gets,
                   clientVars>>

\* run_all_tests returns results.summary(), lines 450 and 460
Summary ==
    /\ hpc = "summary"
    /\ hpc' = "returned"
    /\ UNCHANGED <<passed, failed, total, context_id, content_items, index,
                   success_count, fetched, gets, clientVars>>

HarnessNext ==
    \/ HealthCheck
    \/ CreateContext
    \/ CreateWithContent
    \/ Retrieve
    \/ UpdateProbe
    \/ UpdatePut
    \/ UpdateLegacy
    \/ EmbedGet
    \/ EmbedProbe
    \/ StoreEmbedding
    \/ SearchEmbeddings
    \/ GetEmbeddings
    \/ DeleteEmbeddings
    \/ Summary

HarnessSpec == Init /\ [][HarnessNext]_vars

(* ------------------------------ claims --------------------------------- *)

\* a send_message of task t has received a message
Received(t) == pc[t] \in {"done", "mid"} /\ got[t] # NoMsg

\* C1: with calls issued concurrently, a server that answers each request
\* once and no caller giving up, each call completes with the response whose
\* id is the id of its own request, in whatever order the responses arrive.
C1_EachCallGetsItsOwnResponse ==
    (strays = 0 /\ abandoned = {}) =>
        \A t \in Tasks : Received(t) => got[t].id = rid[t]

\* C2: every call that is pending when the channel closes fails with the
\* transport failure, and none of them receives a result.
C2_PendingCallsFailAtClose ==
    \A t \in Tasks :
        (pc[t] \in {"done", "mid"} /\ rid[t] \in pendAtClose \ abandoned) =>
            sent[t] = Raise("ConnectionClosed", <<>>)

\* C3: the ids put into requests are 1, 2, 3, ... in this order, the counter
\* is the last of them, and the requests on the channel are in increasing
\* order of id with no id twice.
C3_IdsIncreaseByOne ==
    /\ Len(issued) = request_id
    /\ \A i \in 1..Len(issued) : issued[i] = i
    /\ \A i, j \in 1..Len(wire) : i < j => wire[i].id < wire[j].id
    /\ \A t, u \in Tasks : (t # u /\ rid[t] # 0) => rid[t] # rid[u]

\* C3, witness: two calls are in flight at once, after a call that has ended
C3_Witness ==
    /\ Len(issued) >= 3
    /\ \E t, u \in Tasks : t # u /\ pc[t] = "recv" /\ pc[u] = "recv"

\* C4: a response whose id is the id of no pending call completes no call.
C4_StrayResponseIsDropped ==
    \A t \in Tasks : Received(t) => got[t].id # StrayId

\* C5: the response to a call that its caller gave up completes no call
\* issued afterwards.
C5_LateResponseIsDiscarded ==
    \A t \in Tasks : Received(t) => got[t].id \notin abandoned

\* C6: a response with an error object makes send_message raise an error that
\* carries the object's code and message; a response with a result makes it
\* return that document unchanged.
C6_ResponseInterpreted ==
    \A t \in Tasks :
        Received(t) =>
            IF got[t].hasError
            THEN /\ sent[t].kind = "raise"
                 /\ sent[t].exc = "Exception"
                 /\ sent[t].text =
                       <<"MCP Error (",
                         IF got[t].code = -32601 THEN "-32601" ELSE "-32000",
                         "): ", got[t].message>>
            ELSE got[t].hasResult => sent[t] = Return(got[t].result)

\* C6, witness: one send_message has returned a result document and another
\* has raised the error of an error response
C6_Witness ==
    \E t, u \in Tasks :
        /\ pc[t] = "mid" /\ got[t].hasResult /\ HasServerInfo(sent[t].value)
        /\ pc[u] = "done" /\ got[u].hasError /\ got[u].code = -32000

\* C7: the `initialized` request is written only after the response to the
\* `initialize` request of the same handshake has arrived.
C7_InitializedAfterInitializeResponse ==
    [][\A t \in Tasks :
          (pc[t] = "mid" /\ pc'[t] = "recv") => rid[t] \notin Waiting]_vars

\* C8: an operation other than initialize that is called on a connected
\* session before the handshake has completed fails at once and writes no
\* request.
C8_FailFastBeforeReady ==
    [][\A t \in Tasks :
          (/\ pc[t] = "idle"
           /\ pc'[t] # "idle"
           /\ op'[t] # "initialize"
           /\ websocket = "open"
           /\ handshake # "ready") =>
              (pc'[t] = "done" /\ sent'[t].kind = "raise" /\ Len(wire') = Len(wire))]_vars

\* C9: once the channel is closed, an operation or a send_message that is
\* called fails at once with the connection-closed error: no request is
\* written, no message is read and the call does not become pending.
C9_ClosedSessionFailsLocally ==
    [][\A t \in Tasks :
          (websocket = "closed" /\ pc[t] \in {"idle", "mid"} /\ pc'[t] # pc[t]) =>
              /\ pc'[t] = "done"
              /\ sent'[t] = Raise("ConnectionClosed", <<>>)
              /\ wire' = wire
              /\ inbox' = inbox]_vars

\* C9, witness: the first operation of a session is called after the channel
\* closed, and has failed
C9_Witness ==
    \E t \in Tasks :
        /\ websocket = "closed"
        /\ pc[t] = "done"
        /\ issued = <<1>>
        /\ rid[t] = 1
        /\ pendAtClose = {}
        /\ got[t] = NoMsg
        /\ sent[t] = Raise("ConnectionClosed", <<>>)

\* C10: an `initialize` request is written only on a session on which none
\* has been written before.
C10_AtMostOneHandshake ==
    [][(Len(wire') > Len(wire) /\ wire'[Len(wire')].method = "initialize") =>
          handshake = "none"]_vars

\* the request of a batch_call_tools that was called with the arguments a
\* and took the id i
BatchRequest(i, a) ==
    [id |-> i, method |-> "tools/batch",
     params |-> [has |-> {"tools", "parallel"}, tools |-> a.tools,
                 parallel |-> a.parallel, context |-> {}, merge |-> FALSE]]

\* C11: batch_call_tools, called on an open channel with a batch of any size
\* and either value of the flag, writes one `tools/batch` request that
\* carries the whole batch and the flag; while it runs nothing else is
\* written, and it ends with the first message it receives.
C11_OneRequestPerBatch ==
    [][\A t \in Tasks :
          /\ (pc[t] = "idle" /\ op'[t] = "batch_call_tools" /\ websocket = "open") =>
                 /\ wire' = Append(wire, BatchRequest(request_id + 1, args'[t]))
                 /\ pc'[t] = "recv"
          /\ (op[t] = "batch_call_tools" /\ pc[t] = "recv") =>
                 /\ Len(wire') <= Len(wire)
                 /\ pc'[t] \in {"recv", "done"}
                 /\ (inbox' # inbox /\ Len(inbox') <= Len(inbox)) =>
                        (pc'[t] = "done" /\ Len(inbox') = Len(inbox) - 1)]_vars

\* C11, witness: a batch of two calls with parallel=False has been answered,
\* and it was the second request of the session
C11_Witness ==
    \E t \in Tasks :
        /\ pc[t] = "done"
        /\ op[t] = "batch_call_tools"
        /\ Len(args[t].tools) = 2
        /\ ~args[t].parallel
        /\ rid[t] = 2
        /\ got[t].hasResult
        /\ wire = <<>>

\* task t has returned from batch_call_tools
BatchReturned(t) ==
    pc[t] = "done" /\ op[t] = "batch_call_tools" /\ outcome(t).kind = "return"

\* C12: every Batch Result that batch_call_tools returns has success_count +
\* error_count equal to the number of calls submitted; a batch of a call to a tool the server does not have and a call
\* to one it has gives success_count 1, error_count 1 and an outcome under
\* both call ids.
C12_BatchCountsAddUp ==
    \A t \in Tasks :
        BatchReturned(t) =>
            LET r == outcome(t).value
            IN  /\ r.success_count + r.error_count = Len(args[t].tools)
                /\ (args[t].tools = <<BadCall, GoodCall>> /\ advertised = Advertised) =>
                       /\ r.success_count = 1
                       /\ r.error_count = 1
                       /\ {BadCall.id, GoodCall.id} \subseteq r.has
                       /\ {BadCall.id, GoodCall.id} = {o[1] : o \in r.results}

\* the operation of task t has ended after a message came that is JSON and
\* is not the server's rejection of the operation's own request
Answered(t) ==
    /\ pc[t] = "done"
    /\ got[t] # NoMsg
    /\ got[t].json
    /\ ~(got[t].hasError /\ got[t].id = rid[t])

\* C13: list_tools returns the tools the server advertises, in the server's
\* order, unless the server rejects its request or the channel fails; when
\* the server advertises no tool it returns the empty sequence and does not
\* fail.
C13_ListToolsReturnsAdvertised ==
    \A t \in Tasks :
        (Answered(t) /\ op[t] = "list_tools") =>
            /\ outcome(t).kind = "return"
            /\ outcome(t).value = advertised

\* the ids of the requests of the calls of update_context that have returned
\* to the caller
UpdatesReturned ==
    {script[i].id : i \in {j \in 1..Len(script) : script[j].op = "update_context"}}

\* C14: update_context returns only after the response to its own
\* `context.update` request has been received, so that a `context.get`
\* request is written only when the server has answered every update that
\* has returned; every get_context called on an open channel writes a new
\* `context.get` request, and what it returns is the result it received.
C14_UpdateReturnsAfterItsResponse ==
    [][\A t \in Tasks :
          /\ (op[t] = "update_context" /\ pc[t] = "recv" /\ pc'[t] = "done"
                  /\ sent'[t].kind = "return") =>
                 (got'[t].hasResult /\ got'[t].id = rid[t])
          /\ (pc[t] = "idle" /\ op'[t] = "get_context") =>
                 /\ UpdatesReturned \cap Waiting = {}
                 /\ websocket = "open" =>
                        wire' = Append(wire, [id |-> request_id + 1,
                                              method |-> "context.get",
                                              params |-> NoParams])
          /\ (op[t] = "get_context" /\ pc[t] = "recv" /\ pc'[t] = "done"
                  /\ sent'[t].kind = "return" /\ got'[t].hasResult) =>
                 sent'[t].value = got'[t].result]_vars

\* the first three requests of the session were those of update_context(c1),
\* update_context(c2, merge=mrg) and get_context(), each called after the
\* one before had returned, and all three have returned
UpdateUpdateGet(c1, c2, mrg) ==
    /\ Len(script) = 3
    /\ \A i \in 1..3 : script[i].id = InitialRequestId + i
    /\ script[1].op = "update_context"
    /\ script[1].args = Args(<<>>, TRUE, c1, TRUE)
    /\ script[2].op = "update_context"
    /\ script[2].args = Args(<<>>, TRUE, c2, mrg)
    /\ script[3].op = "get_context"

\* C15: after update_context({a:1}, merge=True) and update_context({b:2},
\* merge=True), get_context() returns a document with the keys a and b; with
\* merge=False in the second call it returns a document with the key b only;
\* the request of an update_context carries the caller's document and flag.
C15_MergeThenGet ==
    /\ UpdateUpdateGet({<<"a", 1>>}, {<<"b", 2>>}, TRUE) =>
           script[3].value.has = {"a", "b"}
    /\ UpdateUpdateGet({<<"a", 1>>}, {<<"b", 2>>}, FALSE) =>
           script[3].value.has = {"b"}
    /\ \A t \in Tasks : \A i \in 1..Len(wire) :
           (op[t] = "update_context" /\ wire[i].id = rid[t]) =>
               /\ wire[i].params.merge = args[t].merge
               /\ wire[i].params.context = args[t].context

\* C16: a notification from the server completes no call: the message with
\* which a send_message ends is never a notification.
C16_NotificationCompletesNoCall ==
    \A t \in Tasks : Received(t) => got[t] # NotificationMsg

\* this step writes one request, that of task t, with an id that was never
\* issued before
WritesOne(t) ==
    /\ Len(wire') = Len(wire) + 1
    /\ SubSeq(wire', 1, Len(wire)) = wire
    /\ wire'[Len(wire')].id = rid'[t]
    /\ wire'[Len(wire')].method = method'[t]
    /\ \A i \in 1..Len(issued) : issued[i] # rid'[t]
    /\ issued' = Append(issued, rid'[t])

\* this step is one of task t, and it writes nothing
WritesNone(t) == Len(wire') <= Len(wire) /\ rid'[t] \in {rid[t], 0}

\* C17, as stated: an operation called on an open channel writes one request
\* and no other; an initialize that was called on an open channel has
\* written its two requests when it ends, also when it ends with the error of
\* an error response or with the failure of the channel; the channel is never
\* opened again.
C17_ExactlyOneAndExactlyTwo ==
    [][/\ \A t \in Tasks :
             /\ (pc[t] = "idle" /\ pc'[t] # "idle" /\ websocket = "open") =>
                    WritesOne(t)
             /\ (pc[t] \in {"recv", "done"} /\ pc'[t] # pc[t]) => WritesNone(t)
             /\ (op[t] = "initialize" /\ pc[t] # "done" /\ pc'[t] = "done"
                     /\ sent'[t].exc \in {"", "Exception", "ConnectionClosed"}) =>
                    (pc[t] = "recv" /\ method[t] = "initialized")
       /\ websocket # "None" => websocket' \in {websocket, "closed"}]_vars

\* C17: the client never retries.  An operation writes one request when it
\* is called on an open channel and none otherwise, and no other later;
\* initialize writes a second request, `initialized`, only when its first
\* send_message has returned a result, and only on an open channel; no id is
\* written twice and the channel is never opened again.
C17_NoRetry ==
    [][/\ \A t \in Tasks :
             /\ (pc[t] = "idle" /\ pc'[t] # "idle") =>
                    /\ method'[t] = MethodOf(op'[t])
                    /\ IF websocket = "open" THEN WritesOne(t) ELSE wire' = wire
             /\ (pc[t] \in {"recv", "done"} /\ pc'[t] # pc[t]) => WritesNone(t)
             /\ (pc[t] # "mid" /\ pc'[t] = "mid") =>
                    /\ op[t] = "initialize"
                    /\ method[t] = "initialize"
                    /\ sent'[t].kind = "return"
             /\ (pc[t] = "mid" /\ pc'[t] # "mid") =>
                    /\ method'[t] = "initialized"
                    /\ IF websocket = "open" THEN WritesOne(t) ELSE wire' = wire
             /\ (method[t] = "initialized" /\ pc'[t] # pc[t]) =>
                    pc'[t] \in {"done", "idle"}
       /\ Len(wire') <= Len(wire) + 1
       /\ websocket # "None" => websocket' \in {websocket, "closed"}]_vars

\* C17, witness: an initialize has ended with the error response to its first
\* request, the only request written so far
C17_Witness ==
    \E t \in Tasks :
        /\ pc[t] = "done"
        /\ op[t] = "initialize"
        /\ method[t] = "initialize"
        /\ got[t].hasError
        /\ got[t].id = rid[t]
        /\ issued = <<rid[t]>>
        /\ wire = <<>>

\* C18: a message that is not JSON is fatal to the session: when a call
\* receives one, every call that is waiting fails, and the channel is open no
\* more, so that no later call can succeed (a call succeeds only when it is
\* made on an open channel).
C18_MalformedIsFatal ==
    [][\A t \in Tasks :
          (pc[t] = "recv" /\ got'[t] = MalformedMsg) =>
              /\ websocket' # "open"
              /\ \A u \in Tasks :
                     pc[u] = "recv" => (pc'[u] = "done" /\ sent'[u].kind = "raise")]_vars

\* this step ends the send_message of task t with the error of an error
\* response
RemoteError(t) ==
    pc[t] = "recv" /\ pc'[t] = "done" /\ sent'[t].exc = "Exception"

\* C19: a call that fails with the error of an error response leaves the
\* session as it was: the channel, the counter and the requests written are
\* unchanged and no other task's call is touched; a call made on an open
\* channel takes the next id and its request is written, whatever failed
\* before.
C19_RemoteErrorIsRecoverable ==
    [][\A t \in Tasks :
          /\ RemoteError(t) =>
                 /\ got'[t].hasError
                 /\ websocket' = websocket
                 /\ request_id' = request_id
                 /\ wire' = wire
                 /\ \A u \in Tasks \ {t} :
                        /\ pc'[u] = pc[u]
                        /\ rid'[u] = rid[u]
                        /\ got'[u] = got[u]
                        /\ sent'[u] = sent[u]
          /\ (pc[t] = "idle" /\ pc'[t] # "idle" /\ websocket = "open") =>
                 /\ rid'[t] = request_id + 1
                 /\ request_id' = rid'[t]
                 /\ pc'[t] = "recv"
                 /\ wire' = Append(wire, [id |-> rid'[t], method |-> method'[t],
                                          params |-> ParamsOf(op'[t], args'[t])])]_vars

\* C19, witness: a call has failed with the error response to its own
\* request, on an open channel that has room for more calls, while the call
\* of another task is waiting for its response
C19_Witness ==
    \E t, u \in Tasks :
        /\ pc[t] = "done"
        /\ sent[t].exc = "Exception"
        /\ got[t].id = rid[t]
        /\ websocket = "open"
        /\ request_id < MaxId
        /\ pc[u] = "recv"
        /\ rid[u] \in Waiting

\* a task is free to call an operation while another task's call waits for
\* its response
FreeWhileWaiting(u) ==
    /\ Quiet
    /\ websocket = "open"
    /\ request_id < MaxId
    /\ pc[u] = "idle"
    /\ \A v \in Tasks : v < u => pc[v] = "recv"
    /\ \E t \in Tasks : pc[t] = "recv"

\* C20: an id is taken and its request written in one step, by one task: the
\* request goes behind the requests written before and its id is above every
\* id issued before; a call that waits for its response does not keep
\* another task from writing.
C20_AllocateAndWriteTogether ==
    [][/\ request_id' # request_id =>
             /\ request_id' = request_id + 1
             /\ Cardinality({t \in Tasks : rid'[t] # rid[t]}) = 1
             /\ \A t \in Tasks : rid'[t] # rid[t] => rid'[t] = request_id'
             /\ \A i \in 1..Len(issued) : issued[i] < request_id'
             /\ websocket = "open" =>
                    /\ Len(wire') = Len(wire) + 1
                    /\ SubSeq(wire', 1, Len(wire)) = wire
                    /\ wire'[Len(wire')].id = request_id'
       /\ Len(wire') > Len(wire) => request_id' # request_id
       /\ \A u \in Tasks :
             FreeWhileWaiting(u) => ENABLED Call(u, "call_tool", DefaultArgs)]_vars

\* C20, witness: two calls wait for their responses, and their requests are
\* on the channel in the order of their ids
C20_Witness ==
    \E t, u \in Tasks :
        /\ pc[t] = "recv"
        /\ pc[u] = "recv"
        /\ rid[t] < rid[u]
        /\ Len(wire) = 2
        /\ wire[1].id = rid[t]
        /\ wire[2].id = rid[u]

\* C21: with one caller that makes one call at a time and gives up none, and
\* a server that has sent nothing but one response for each request it
\* answered, every send_message that receives a message receives the
\* response to its own request, and returns its result or raises its error.
C21_SequentialUseIsCorrelated ==
    strays = 0 =>
        /\ \A t \in Tasks \ {Caller} : pc[t] = "idle"
        /\ Received(Caller) =>
               /\ got[Caller].id = rid[Caller]
               /\ got[Caller].json
               /\ got[Caller].hasError # got[Caller].hasResult
               /\ sent[Caller] = Interpret(got[Caller])
               /\ got[Caller].hasResult => sent[Caller] = Return(got[Caller].result)
               /\ got[Caller].hasError => sent[Caller].exc = "Exception"
        /\ \A i \in 1..Len(inbox) : inbox[i].id = rid[Caller]
        /\ Len(inbox) <= 1

\* C21, witness: the third call of a session has received the response to
\* its request after a call that returned and a call that did not
C21_Witness ==
    /\ strays = 0
    /\ pc[Caller] = "done"
    /\ rid[Caller] = 3
    /\ got[Caller].id = 3
    /\ got[Caller].hasResult
    /\ Len(script) = 1

\* the client has never been connected: connect is the only way from None
NeverConnected == websocket = "None"

\* task t calls an operation in this step
Calls(t) == pc[t] = "idle" /\ pc'[t] # "idle"

\* C22: an operation called on a client that was never connected ends at once
\* with RuntimeError "Not connected to Edge MCP": the counter keeps its value,
\* no id is taken, nothing is written to or taken from a channel and the
\* client stays unconnected; a disconnect of such a client changes nothing.
C22_NotConnectedFailsFirst ==
    [][NeverConnected =>
          /\ \A t \in Tasks : Calls(t) =>
                 /\ pc'[t] = "done"
                 /\ sent'[t] = Raise("RuntimeError", <<"Not connected to Edge MCP">>)
                 /\ OpOutcome(op'[t], sent'[t], result'[t]) = sent'[t]
                 /\ got'[t] = NoMsg
                 /\ request_id' = request_id
                 /\ issued' = issued
                 /\ wire' = wire
                 /\ inbox' = inbox
                 /\ websocket' = websocket
                 /\ handshake' = handshake
          /\ (\A t \in Tasks : pc'[t] = pc[t]) /\ websocket' = websocket
                 => UNCHANGED vars
          /\ request_id = InitialRequestId
          /\ wire = <<>> /\ inbox = <<>> /\ issued = <<>>]_vars

\* C22, witness: batch_call_tools has failed on the client that was never
\* connected, and no id has been taken
C22_Witness ==
    /\ NeverConnected
    /\ \E t \in Tasks :
           /\ pc[t] = "done"
           /\ outcome(t) = Raise("RuntimeError", <<"Not connected to Edge MCP">>)
           /\ op[t] = "batch_call_tools"
    /\ request_id = InitialRequestId
    /\ issued = <<>>

\* the mock document of get_context for the context id i, line 130
Mock(i) == HDict({"id", "content", "agent_id", "model_id"}, i, 0)

\* the ids run_all_tests can ask for: the server's, and the defaults of
\* lines 111 and 280
ContextIds == {i \in ServerIds \cup {"test-id", "test-id-1"} : Truthy(i)}

\* get_context is answered in this step, with a status other than 200
NotRetrieved ==
    /\ Len(gets') = Len(gets) + 1
    /\ gets'[Len(gets')] # 200

\* C23: in the REST harness get_context answers every HTTP status other than
\* 200 with a mock document that carries the requested id, never with None
\* and never with an exception; so test_context_retrieval records a pass and
\* no failure whenever its request is answered with such a status, whatever
\* the context id, and test_embedding_operations goes on with the mock.
C23_MockHidesFailedRetrieval ==
    /\ [](\A i \in ContextIds : \A r \in Responses :
              r.status # 200 => /\ get_context(i, r) = Mock(i)
                                /\ RetrievalSuccess(i, get_context(i, r)))
    /\ [][NotRetrieved =>
              /\ context_id \in ContextIds
              /\ hpc = "retrieve" =>
                     /\ fetched' = Mock(context_id)
                     /\ passed' = passed + 1
                     /\ failed' = failed
                     /\ total' = total + 1
                     /\ hpc' = "options"
              /\ hpc = "embed_get" =>
                     /\ hpc' = "vectors"
                     /\ content_items' = 0
                     /\ UNCHANGED <<passed, failed, total>>]_vars

\* C23, witness: run_all_tests has returned True, with all six results
\* passes, and neither of its two get_context requests was answered with
\* status 200: what test_context_retrieval passed was the mock
C23_Witness ==
    /\ hpc = "returned"
    /\ summary
    /\ Len(gets) = 2
    /\ \A k \in 1..Len(gets) : gets[k] # 200
    /\ fetched = Mock(context_id)
    /\ passed = total
    /\ total = 6

=============================================================================
